---------------------------- MODULE Spec2Model ----------------------------
(***************************************************************************)
(* A model of web_video_server's session registry and request handlers     *)
(* (src/src/web_video_server.cpp): the handlers that create, start and     *)
(* insert streamers into image_subscribers_ under subscriber_mutex_, the   *)
(* timer-driven cleanup_inactive_streams that try-locks the same mutex,    *)
(* and the ros_connection_logger wrapper every request goes through.       *)
(***************************************************************************)
EXTENDS Integers, Sequences, FiniteSets, TLC

(* ----------------------------- bounds --------------------------------- *)

\* request-handling threads of the HTTP server (server_threads)
NumThreads == 2
\* streamer objects alive at the same time (an address is reused once freed)
MaxSessions == 2

(* ------------------------- program constants --------------------------- *)

Threads == 1..NumThreads
\* the ROS timer callback runs on its own (spinner) thread
TimerThread == NumThreads + 1
Ids == 1..MaxSessions
\* an empty boost::shared_ptr (a moved-from slot of the vector)
NullPtr == MaxSessions + 1

\* stream_types_ as filled by the constructor
stream_types_ == {"mjpeg", "vp8", "h264"}
\* the codec of handle_snapshot's JpegSnapshotStreamer
SnapshotKind == "snapshot"
\* values of the "type" query parameter tried; "absent" is a request without it
TypeParams == {"absent", "mjpeg", "bogus"}
\* what a collaborator may throw: something derived from std::exception, or not
ErrKinds == {"std", "other"}

\* request.get_query_param_value_or_default("type", "mjpeg")
get_query_param_value_or_default(param, default) ==
    IF param = "absent" THEN default ELSE param

VARIABLES
    pc,                 \* per request thread: where it is in wrapper + handler
    req,                \* per request thread: [path, type] of the request in hand
    cur,                \* per request thread: the handler's local `streamer` (NullPtr: none)
    reply,              \* per request thread: status line the handler issued
    kind,               \* per request thread: codec of its local `streamer` ("none": no object)
    started,            \* streamers whose start() returned
    inactive,           \* streamers whose isInactive() returns true
    image_subscribers_, \* the vector of shared_ptr<ImageStreamer>
    subscriber_mutex_,  \* set of threads owning the mutex (empty: free)
    sweepPc,            \* where the timer callback is
    scan_i,             \* remove_if: read position
    new_end,            \* remove_if: write position, then its result
    found,              \* remove_if: an inactive element has been met
    logItr,             \* the logging loop's iterator (line 108)
    removedLog,         \* the streamers named by "Removed Stream" in this sweep
    cxx11,              \* the build: remove_if move-assigns (TRUE) or copy-assigns
    crashed,            \* the process died (empty shared_ptr dereferenced)
    preVec,             \* history: the vector when the sweep took the lock
    preInactive,        \* history: the inactive streamers in it at that moment
    seenInactive,       \* history: streamers whose isInactive() returned true in this scan
    staleAtTick,        \* history: registered streamers already inactive when the tick fired
    staleTicks,         \* history: per streamer, finished ticks it was stale at and survived
    disturbed,          \* history: an activity change happened during this sweep
    quiet,              \* history: the last finished sweep and the time since saw no
                        \*          insert and no activity change
    bus,                \* directory: the topics the ROS master knows, in its order
    getTopicsOk,        \* directory: what ros::master::getTopics returns
    dirPc,              \* directory: where handle_list_streams is
    topics,             \* directory: the local V_TopicInfo `topics`
    image_topics,       \* directory: the local vector of image topic names
    camera_info_topics, \* directory: the local vector of camera-info topic names
    dirReply,           \* directory: the status line written
    out                 \* directory: what was written to the connection after it

dirVars == << bus, getTopicsOk, dirPc, topics, image_topics, camera_info_topics,
             dirReply, out >>

vars == << pc, req, cur, reply, kind, started, inactive,
           image_subscribers_, subscriber_mutex_, sweepPc, scan_i, new_end, found,
           logItr, removedLog, cxx11, dirVars, crashed,
           preVec, preInactive, seenInactive, staleAtTick, staleTicks,
           disturbed, quiet >>

handlerVars == << pc, req, cur, reply >>
sessionVars == << kind, started, inactive >>
sweepVars == << sweepPc, scan_i, new_end, found, logItr, removedLog >>
histVars == << preVec, preInactive, seenInactive, staleAtTick, staleTicks,
           disturbed, quiet >>

(* ----------------------------- helpers -------------------------------- *)

Range(s) == { s[i] : i \in 1..Len(s) }

\* the streamers the vector holds
Registered == Range(image_subscribers_) \ {NullPtr}

\* staleTicks saturates here
MaxStale == 2

Bump(n) == IF n < MaxStale THEN n + 1 ELSE n

\* a request thread between requests
NoRequest == [path |-> "none", type |-> "absent"]

\* the server as the constructor leaves it
ServerInit ==
    /\ pc = [t \in Threads |-> "idle"]
    /\ req = [t \in Threads |-> NoRequest]
    /\ cur = [t \in Threads |-> NullPtr]
    /\ reply = [t \in Threads |-> "none"]
    /\ kind = [t \in Threads |-> "none"]
    /\ started = {}
    /\ inactive = {}
    /\ image_subscribers_ = << >>
    /\ subscriber_mutex_ = {}
    /\ sweepPc = "idle"
    /\ scan_i = 1
    /\ new_end = 1
    /\ found = FALSE
    /\ logItr = 1
    /\ removedLog = << >>
    /\ crashed = FALSE
    /\ preVec = << >>
    /\ preInactive = {}
    /\ seenInactive = {}
    /\ staleAtTick = {}
    /\ staleTicks = [s \in Ids |-> 0]
    /\ disturbed = FALSE
    /\ quiet = FALSE

\* no directory request is looked into
DirIdle ==
    /\ bus = << >>
    /\ getTopicsOk = TRUE
    /\ dirPc = "none"
    /\ topics = << >>
    /\ image_topics = << >>
    /\ camera_info_topics = << >>
    /\ dirReply = "none"
    /\ out = << >>

\* the build is either one
Init == ServerInit /\ cxx11 \in BOOLEAN /\ DirIdle

(* --------------------------- the streamers ----------------------------- *)

\* ImageStreamer::isInactive()
isInactive(s) == s \in inactive

\* the streamer objects some shared_ptr of (vec, locals) refers to
AliveIn(vec, locals) == (Range(vec) \cup { locals[t] : t \in Threads }) \ {NullPtr}

Alive == AliveIn(image_subscribers_, cur)

\* shared_ptr ownership: a streamer no pointer refers to any more is destroyed
Reap(vec, locals) ==
    /\ kind' = [t \in Threads |-> IF locals[t] = NullPtr THEN "none" ELSE kind[t]]
    /\ started' = started \cap AliveIn(vec, locals)
    /\ inactive' = inactive \cap AliveIn(vec, locals)

\* the transport or the bus invalidates a started streamer (write failure,
\* disconnect, snapshot delivered): from then on isInactive() returns true
Deactivate(s) ==
    /\ ~crashed
    /\ s \in (started \cap Alive) \ inactive
    /\ inactive' = inactive \cup {s}
    /\ quiet' = FALSE
    /\ disturbed' = (sweepPc \in {"scan", "log", "unlock"})
    /\ UNCHANGED << handlerVars, kind, started, image_subscribers_,
                    subscriber_mutex_, sweepVars, cxx11, dirVars, crashed, preVec,
                    preInactive, seenInactive, staleAtTick, staleTicks >>

(* --------------------- request thread: the wrapper --------------------- *)

\* threads that will still construct a streamer for the request in hand
PendingCreators == { u \in Threads : pc[u] = "create" }

\* a streamer can still be allocated for a new request, besides the pending ones
Capacity == Cardinality(Alive) + Cardinality(PendingCreators) < MaxSessions

\* ros_connection_logger is entered by an idle server thread with a request for
\* `path` whose "type" parameter (or its default) names the codec tp, and
\* forwards it
Forward(t, path, tp) ==
    /\ pc[t] = "idle"
    /\ req' = [req EXCEPT ![t] = [path |-> path, type |-> tp]]

\* the mutex after the scoped_lock of thread t is destroyed
Released(t) == subscriber_mutex_ \ {t}

\* catch(std::exception& e): TRUE when an exception of kind k is caught
Catches(k) == k = "std"

\* a collaborator call made by thread t throws an exception of kind k: the
\* handler is unwound (its scoped_lock and its local streamer are destroyed) and
\* the exception reaches the try block of ros_connection_logger, which logs a
\* warning for what it catches and lets the rest out into the server's thread
Raise(t, k) ==
    /\ subscriber_mutex_' = Released(t)
    /\ cur' = [cur EXCEPT ![t] = NullPtr]
    /\ pc' = [pc EXCEPT ![t] = IF Catches(k) THEN "caught" ELSE "dead"]
    /\ req' = [req EXCEPT ![t] = NoRequest]
    /\ reply' = [reply EXCEPT ![t] = "none"]
    /\ Reap(image_subscribers_, cur')

\* ros_connection_logger returns to the server, normally or after its catch
HandlerReturn(t) ==
    /\ ~crashed
    /\ pc[t] \in {"return", "caught"}
    /\ pc' = [pc EXCEPT ![t] = "idle"]
    /\ cur' = [cur EXCEPT ![t] = NullPtr]
    /\ req' = [req EXCEPT ![t] = NoRequest]
    /\ reply' = [reply EXCEPT ![t] = "none"]
    /\ Reap(image_subscribers_, cur')
    /\ UNCHANGED << image_subscribers_, subscriber_mutex_, sweepVars, cxx11, dirVars,
                    crashed, histVars >>

(* ------------------- request thread: the handlers ---------------------- *)

\* (mutant) the lookup result is not tested
KnownTypeAlways(type) == TRUE

\* stream_types_.find(type) != stream_types_.end()
KnownType(type) == type \in stream_types_

\* the stock not-found reply
NotFound(t) ==
    /\ pc' = [pc EXCEPT ![t] = "return"]
    /\ reply' = [reply EXCEPT ![t] = "404"]

\* handle_stream up to the codec lookup, and its not-found branch
StreamLookup(t) ==
    /\ ~crashed
    /\ \E tp \in TypeParams :
         LET type == get_query_param_value_or_default(tp, "mjpeg") IN
           /\ Forward(t, "/stream", type)
           /\ IF KnownType(type)
                THEN /\ Capacity
                     /\ pc' = [pc EXCEPT ![t] = "create"]
                     /\ reply' = reply
                ELSE NotFound(t)
    /\ UNCHANGED << cur, sessionVars, image_subscribers_,
                    subscriber_mutex_, sweepVars, cxx11, dirVars, crashed, histVars >>

\* the object a fresh allocation yields: one no pointer refers to
FreshId == CHOOSE s \in Ids \ Alive : \A u \in Ids \ Alive : s <= u

\* a new streamer object of codec k becomes thread t's local `streamer`
NewStreamer(t, k) ==
    /\ Ids \ Alive # {}
    /\ cur' = [cur EXCEPT ![t] = FreshId]
    /\ kind' = [kind EXCEPT ![t] = k]
    /\ pc' = [pc EXCEPT ![t] = "start"]
    /\ UNCHANGED << reply, started, inactive, subscriber_mutex_ >>

\* handle_stream: stream_types_[type]->create_streamer(...)
StreamCreate(t) ==
    /\ ~crashed
    /\ pc[t] = "create"
    /\ \/ NewStreamer(t, req[t].type) /\ req' = req
       \/ \E k \in ErrKinds : Raise(t, k)
    /\ UNCHANGED << image_subscribers_, sweepVars, cxx11, dirVars, crashed, histVars >>

\* (mutant) handle_snapshot looks the "type" parameter up as handle_stream does
SnapshotLooksUpType(t) ==
    /\ ~crashed
    /\ pc[t] = "idle"
    /\ Capacity
    /\ \E tp \in TypeParams :
         /\ Forward(t, "/snapshot", get_query_param_value_or_default(tp, "mjpeg"))
         /\ IF KnownType(get_query_param_value_or_default(tp, "mjpeg"))
              THEN NewStreamer(t, SnapshotKind)
              ELSE NotFound(t) /\ UNCHANGED << cur, sessionVars, subscriber_mutex_ >>
    /\ UNCHANGED << image_subscribers_, sweepVars, cxx11, dirVars, crashed, histVars >>

\* handle_snapshot: new JpegSnapshotStreamer(...); the codec the request's
\* "type" parameter names, whatever it is, is not looked at
SnapshotCreate(t) ==
    /\ ~crashed
    /\ pc[t] = "idle"
    /\ Capacity
    /\ \/ \E tp \in TypeParams :
            /\ NewStreamer(t, SnapshotKind)
            /\ Forward(t, "/snapshot", get_query_param_value_or_default(tp, "mjpeg"))
       \/ \E k \in ErrKinds : Raise(t, k)
    /\ UNCHANGED << image_subscribers_, sweepVars, cxx11, dirVars, crashed, histVars >>

\* (mutant) the handler goes on without having called start()
StreamerStartSkipped(t) ==
    /\ ~crashed
    /\ pc[t] = "start"
    /\ pc' = [pc EXCEPT ![t] = "lock"]
    /\ UNCHANGED << req, cur, reply, sessionVars, subscriber_mutex_ >>
    /\ UNCHANGED << image_subscribers_, sweepVars, cxx11, dirVars, crashed, histVars >>

\* streamer->start()
StreamerStart(t) ==
    /\ ~crashed
    /\ pc[t] = "start"
    /\ \/ /\ started' = started \cup {cur[t]}
          /\ pc' = [pc EXCEPT ![t] = "lock"]
          /\ UNCHANGED << req, cur, reply, kind, inactive, subscriber_mutex_ >>
       \/ \E k \in ErrKinds : Raise(t, k)
    /\ UNCHANGED << image_subscribers_, sweepVars, cxx11, dirVars, crashed, histVars >>

\* (mutant) the scoped_lock does not wait for the mutex
CanLockAlways == TRUE

\* boost::mutex::scoped_lock lock(subscriber_mutex_): blocks until the mutex is free
CanLock == subscriber_mutex_ = {}

InsertLock(t) ==
    /\ ~crashed
    /\ pc[t] = "lock"
    /\ CanLock
    /\ subscriber_mutex_' = subscriber_mutex_ \cup {t}
    /\ pc' = [pc EXCEPT ![t] = "push"]
    /\ UNCHANGED << req, cur, reply, sessionVars, image_subscribers_,
                    sweepVars, cxx11, dirVars, crashed, histVars >>

\* (mutant) the streamer is appended twice
PushBackTwice(vec, s) == Append(Append(vec, s), s)

\* image_subscribers_.push_back(streamer)
PushBack(vec, s) == Append(vec, s)

InsertPushBack(t) ==
    /\ ~crashed
    /\ pc[t] = "push"
    /\ \/ /\ image_subscribers_' = PushBack(image_subscribers_, cur[t])
          /\ pc' = [pc EXCEPT ![t] = "unlock"]
          /\ quiet' = FALSE
          /\ UNCHANGED << req, cur, reply, sessionVars, subscriber_mutex_ >>
       \/ /\ Raise(t, "std")    \* std::bad_alloc from the vector's growth
          /\ UNCHANGED << image_subscribers_, quiet >>
    /\ UNCHANGED << sweepVars, cxx11, dirVars, crashed, preVec, preInactive, seenInactive,
                    staleAtTick, staleTicks, disturbed >>

\* the handler's closing brace: the scoped_lock is destroyed
InsertUnlock(t) ==
    /\ ~crashed
    /\ pc[t] = "unlock"
    /\ subscriber_mutex_' = Released(t)
    /\ pc' = [pc EXCEPT ![t] = "return"]
    /\ UNCHANGED << req, cur, reply, sessionVars, image_subscribers_,
                    sweepVars, cxx11, dirVars, crashed, histVars >>

\* (mutant) the viewer handler goes on to create a streamer as handle_stream does
ViewerLookupCreates(t) ==
    /\ ~crashed
    /\ \E tp \in TypeParams :
         LET type == get_query_param_value_or_default(tp, "mjpeg") IN
           /\ Forward(t, "/stream_viewer", type)
           /\ IF KnownType(type)
                THEN /\ Capacity
                     /\ pc' = [pc EXCEPT ![t] = "create"]
                     /\ reply' = [reply EXCEPT ![t] = "200"]
                ELSE NotFound(t)
    /\ UNCHANGED << cur, sessionVars, image_subscribers_,
                    subscriber_mutex_, sweepVars, cxx11, dirVars, crashed, histVars >>

\* handle_stream_viewer up to the 200 header, and its not-found branch
ViewerLookup(t) ==
    /\ ~crashed
    /\ \E tp \in TypeParams :
         LET type == get_query_param_value_or_default(tp, "mjpeg") IN
           /\ Forward(t, "/stream_viewer", type)
           /\ IF KnownType(type)
                THEN /\ pc' = [pc EXCEPT ![t] = "viewer_body"]
                     /\ reply' = [reply EXCEPT ![t] = "200"]
                ELSE NotFound(t)
    /\ UNCHANGED << cur, sessionVars, image_subscribers_,
                    subscriber_mutex_, sweepVars, cxx11, dirVars, crashed, histVars >>

\* handle_stream_viewer: create_viewer(request) and the write of the page
ViewerBody(t) ==
    /\ ~crashed
    /\ pc[t] = "viewer_body"
    /\ \/ /\ pc' = [pc EXCEPT ![t] = "return"]
          /\ UNCHANGED << req, cur, reply, sessionVars, subscriber_mutex_ >>
       \/ \E k \in ErrKinds : Raise(t, k)
    /\ UNCHANGED << image_subscribers_, sweepVars, cxx11, dirVars, crashed, histVars >>

\* handle_list_streams: the 200 header and the directory page
ListStreams(t) ==
    /\ ~crashed
    /\ pc[t] = "idle"
    /\ \/ /\ Forward(t, "/", "absent")
          /\ pc' = [pc EXCEPT ![t] = "return"]
          /\ reply' = [reply EXCEPT ![t] = "200"]
          /\ UNCHANGED << cur, sessionVars, subscriber_mutex_ >>
       \/ \E k \in ErrKinds : Raise(t, k)
    /\ UNCHANGED << image_subscribers_, sweepVars, cxx11, dirVars, crashed, histVars >>

(* ------------------- cleanup_inactive_streams (timer) ------------------ *)

\* staleTicks once a tick has ended with the vector as `vec`
TickEnded(vec) ==
    [s \in Ids |-> IF s \in Range(vec)
                     THEN (IF s \in staleAtTick THEN Bump(staleTicks[s])
                                                ELSE staleTicks[s])
                     ELSE 0]

\* (mutant) `if(lock)` is not tested: the body runs without the mutex
TryLockIgnored == TRUE

\* scoped_lock lock(subscriber_mutex_, boost::try_to_lock): TRUE when it owns the mutex
TryLockSucceeds == subscriber_mutex_ = {}

\* cleanup_timer_ fires (every 0.5 s) and calls cleanup_inactive_streams: the
\* try-lock and `if(lock)`; on failure the body is skipped
SweepTryLock ==
    /\ ~crashed
    /\ sweepPc = "idle"
    /\ staleAtTick' = Registered \cap inactive
    /\ IF TryLockSucceeds
         THEN /\ subscriber_mutex_' = subscriber_mutex_ \cup {TimerThread}
              /\ sweepPc' = "scan"
              /\ preVec' = image_subscribers_
              /\ preInactive' = Registered \cap inactive
         ELSE /\ sweepPc' = "skipped"
              /\ UNCHANGED << subscriber_mutex_, preVec, preInactive >>
    /\ UNCHANGED << handlerVars, sessionVars, image_subscribers_, scan_i, new_end,
                    found, logItr, removedLog, cxx11, dirVars, crashed, seenInactive,
                    staleTicks, disturbed, quiet >>

\* the function returns without having owned the mutex
SweepSkipReturn ==
    /\ ~crashed
    /\ sweepPc = "skipped"
    /\ sweepPc' = "idle"
    /\ staleTicks' = TickEnded(image_subscribers_)
    /\ staleAtTick' = {}
    /\ UNCHANGED << handlerVars, sessionVars, image_subscribers_, subscriber_mutex_,
                    scan_i, new_end, found, logItr, removedLog, cxx11, dirVars, crashed,
                    preVec, preInactive, seenInactive, disturbed, quiet >>

\* (mutant) the predicate is inverted: the active streamers are removed
RemovePredInverted(s) == ~isInactive(s)

\* the predicate handed to remove_if: boost::bind(&ImageStreamer::isInactive, _1)
RemovePred(s) == isInactive(s)

\* what the assignment *result = *first leaves in the slot it read from:
\* the same pointer (copy assignment) or an empty one (move assignment)
LeftBehind(s) == IF cxx11 THEN NullPtr ELSE s

\* std::remove_if, one element per step
SweepScan ==
    /\ ~crashed
    /\ sweepPc = "scan"
    /\ scan_i <= Len(image_subscribers_)
    /\ LET s == image_subscribers_[scan_i] IN
         /\ seenInactive' = IF isInactive(s) THEN seenInactive \cup {s}
                                               ELSE seenInactive
         /\ IF RemovePred(s)
              THEN /\ found' = TRUE
                   /\ UNCHANGED << new_end, image_subscribers_ >>
              ELSE /\ new_end' = new_end + 1
                   /\ image_subscribers_' =
                          IF found
                            THEN [image_subscribers_ EXCEPT ![new_end] = s,
                                                            ![scan_i] = LeftBehind(s)]
                            ELSE image_subscribers_
                   /\ found' = found
    /\ scan_i' = scan_i + 1
    /\ Reap(image_subscribers_', cur)
    /\ UNCHANGED << handlerVars, subscriber_mutex_, sweepPc, logItr,
                    removedLog, cxx11, dirVars, crashed, preVec, preInactive,
                    staleAtTick, staleTicks, disturbed, quiet >>

\* remove_if returns new_end; the logging loop starts there
SweepScanDone ==
    /\ ~crashed
    /\ sweepPc = "scan"
    /\ scan_i > Len(image_subscribers_)
    /\ sweepPc' = "log"
    /\ logItr' = new_end
    /\ UNCHANGED << handlerVars, sessionVars, image_subscribers_, subscriber_mutex_,
                    scan_i, new_end, found, removedLog, cxx11, dirVars, crashed,
                    histVars >>

\* ROS_INFO_STREAM("Removed Stream: " << (*itr)->getTopic()): dereferencing an
\* empty shared_ptr kills the process
SweepLog ==
    /\ ~crashed
    /\ sweepPc = "log"
    /\ logItr <= Len(image_subscribers_)
    /\ IF image_subscribers_[logItr] = NullPtr
         THEN /\ crashed' = TRUE
              /\ UNCHANGED << logItr, removedLog >>
         ELSE /\ removedLog' = Append(removedLog, image_subscribers_[logItr])
              /\ logItr' = logItr + 1
              /\ crashed' = crashed
    /\ UNCHANGED << handlerVars, sessionVars, image_subscribers_, subscriber_mutex_,
                    sweepPc, scan_i, new_end, found, cxx11, dirVars,
                    histVars >>

\* (mutant) erase(new_end + 1, end): the first removed slot is kept
EraseTooLate(vec, from) == SubSeq(vec, 1, IF from <= Len(vec) THEN from ELSE from - 1)

\* (mutant) erase(new_end - 1, end): the last retained streamer goes too
EraseTooEarly(vec, from) == SubSeq(vec, 1, from - 2)

\* (mutant) erase(end, end): nothing is erased
EraseNothing(vec, from) == vec

\* image_subscribers_.erase(new_end, image_subscribers_.end())
Erase(vec, from) == SubSeq(vec, 1, from - 1)

SweepErase ==
    /\ ~crashed
    /\ sweepPc = "log"
    /\ logItr > Len(image_subscribers_)
    /\ image_subscribers_' = Erase(image_subscribers_, new_end)
    /\ sweepPc' = "unlock"
    /\ Reap(image_subscribers_', cur)
    /\ UNCHANGED << handlerVars, subscriber_mutex_, scan_i, new_end,
                    found, logItr, removedLog, cxx11, dirVars, crashed, histVars >>

\* the function returns: the scoped_lock is destroyed
SweepUnlock ==
    /\ ~crashed
    /\ sweepPc = "unlock"
    /\ subscriber_mutex_' = Released(TimerThread)
    /\ sweepPc' = "idle"
    /\ scan_i' = 1
    /\ new_end' = 1
    /\ found' = FALSE
    /\ logItr' = 1
    /\ removedLog' = << >>
    /\ staleTicks' = TickEnded(image_subscribers_)
    /\ staleAtTick' = {}
    /\ quiet' = ~disturbed
    /\ disturbed' = FALSE
    /\ preVec' = << >>
    /\ preInactive' = {}
    /\ seenInactive' = {}
    /\ UNCHANGED << handlerVars, sessionVars, image_subscribers_, cxx11, dirVars, crashed >>

(* --------------------------- specification ----------------------------- *)

Next ==
    \/ \E t \in Threads : HandlerReturn(t)
    \/ \E t \in Threads : StreamLookup(t)
    \/ \E t \in Threads : StreamCreate(t)
    \/ \E t \in Threads : SnapshotCreate(t)
    \/ \E t \in Threads : StreamerStart(t)
    \/ \E t \in Threads : InsertLock(t)
    \/ \E t \in Threads : InsertPushBack(t)
    \/ \E t \in Threads : InsertUnlock(t)
    \/ \E t \in Threads : ViewerLookup(t)
    \/ \E t \in Threads : ViewerBody(t)
    \/ \E t \in Threads : ListStreams(t)
    \/ \E s \in Ids : Deactivate(s)
    \/ SweepTryLock
    \/ SweepSkipReturn
    \/ SweepScan
    \/ SweepScanDone
    \/ SweepLog
    \/ SweepErase
    \/ SweepUnlock

Spec == Init /\ [][Next]_vars

(* ------------- handle_list_streams: the directory page ----------------- *)

\* A string is the sequence of its pieces: "/" and the words between slashes,
\* so "/cam2/image_raw" is << "/", "cam2", "/", "image_raw" >>.

\* topics on the bus at most
MaxTopics == 5

\* ros::message_traits::datatype<sensor_msgs::Image>() and <sensor_msgs::CameraInfo>()
image_message_type == "sensor_msgs/Image"
camera_info_message_type == "sensor_msgs/CameraInfo"
\* the topics met on the bus
TopicInfos ==
    { [name |-> << "/", "camera_info" >>,
       datatype |-> camera_info_message_type],
      [name |-> << "/", "cam2", "/", "camera_info" >>,
       datatype |-> camera_info_message_type],
      [name |-> << "/", "sensor", "/", "info" >>,
       datatype |-> camera_info_message_type],
      [name |-> << "/", "cam2", "/", "image_raw" >>,
       datatype |-> image_message_type],
      [name |-> << "/", "cam2", "/", "image_raw", "/", "compressed" >>,
       datatype |-> image_message_type],
      [name |-> << "/", "other", "/", "image_raw" >>,
       datatype |-> image_message_type],
      [name |-> << "/", "cam2", "/", "points" >>,
       datatype |-> "sensor_msgs/PointCloud2"] }

\* what the master can report: some of these topics, each once, in any order
BusStates ==
    UNION { { f \in [1..n -> TopicInfos] : \A i, j \in 1..n : i # j => f[i] # f[j] } :
              n \in 0..MaxTopics }

\* strlen
strlen(lit) == Len(lit)

\* std::string::substr(pos, n) and substr(pos), positions counted from 0
substr(str, pos, n) == SubSeq(str, pos + 1, pos + n)
substr_from(str, pos) == SubSeq(str, pos + 1, Len(str))

\* (mutant) every name counts as a camera-info name
ends_with_anything(str, suffix) == TRUE

\* boost::algorithm::ends_with
ends_with(str, suffix) ==
    /\ Len(suffix) <= Len(str)
    /\ SubSeq(str, Len(str) - Len(suffix) + 1, Len(str)) = suffix

\* (mutant) every image topic counts as lying under the base
starts_with_anything(str, prefix) == TRUE

\* boost::starts_with
starts_with(str, prefix) ==
    /\ Len(prefix) <= Len(str)
    /\ SubSeq(str, 1, Len(prefix)) = prefix

\* the names of the topics of datatype dt, in the order of `tps` (lines 174-182)
RECURSIVE NamesOfType(_, _)
NamesOfType(tps, dt) ==
    IF tps = << >> THEN << >>
    ELSE (IF Head(tps).datatype = dt THEN << Head(tps).name >> ELSE << >>)
            \o NamesOfType(Tail(tps), dt)

\* One entry of `out` stands for the writes that belong together:
\*   open      "<li>" base "<ul>"                      (lines 200-202)
\*   item      the viewer link labelled `label` and the snapshot link of `topic`
\*   close_ul  "</ul>"                                  (line 221)
\*   close_li  "</li>"                                  (line 223)
\*   page_open / page_close   the fixed head and tail of the page
Written(k, topic, label) == [kind |-> k, topic |-> topic, label |-> label]

\* std::vector::erase(itr): the vector without its element at position i
VecErase(vec, i) == SubSeq(vec, 1, i - 1) \o SubSeq(vec, i + 1, Len(vec))

\* the loop over image_topics for one base (lines 203-220), from position i on:
\* what it writes and what it leaves in the vector
RECURSIVE ClaimLoop(_, _, _)
ClaimLoop(base_topic, imgs, i) ==
    IF i > Len(imgs) THEN [written |-> << >>, rest |-> imgs]
    ELSE IF starts_with(imgs[i], base_topic)
      THEN LET r == ClaimLoop(base_topic, VecErase(imgs, i), i) IN
             [written |-> << Written("item", imgs[i],
                                     substr_from(imgs[i], Len(base_topic))) >>
                            \o r.written,
              rest |-> r.rest]
      ELSE ClaimLoop(base_topic, imgs, i + 1)

\* the body of BOOST_FOREACH for one camera_info_topic (lines 198-223)
ForEachBody(camera_info_topic, imgs) ==
    IF ends_with(camera_info_topic, << "/", "camera_info" >>)
      THEN LET base_topic == substr(camera_info_topic, 0,
                                    Len(camera_info_topic)
                                       - strlen(<< "camera_info" >>))
               r == ClaimLoop(base_topic, imgs, 1)
           IN [written |-> << Written("open", base_topic, << >>) >>
                              \o r.written
                              \o << Written("close_ul", << >>, << >>),
                                    Written("close_li", << >>, << >>) >>,
               rest |-> r.rest]
      ELSE [written |-> << Written("close_li", << >>, << >>) >>, rest |-> imgs]

\* BOOST_FOREACH over camera_info_topics (lines 197-224): everything it writes
RECURSIVE ForEach(_, _)
ForEach(infos, imgs) ==
    IF infos = << >> THEN << >>
    ELSE LET r == ForEachBody(Head(infos), imgs) IN
           r.written \o ForEach(Tail(infos), r.rest)

\* what handle_list_streams writes after the header for the topic list tps
Page(tps) ==
    << Written("page_open", << >>, << >>) >>
       \o ForEach(NamesOfType(tps, camera_info_message_type),
                  NamesOfType(tps, image_message_type))
       \o << Written("page_close", << >>, << >>) >>

\* everything but the directory request
serverVars == << handlerVars, sessionVars, image_subscribers_, subscriber_mutex_,
                 sweepVars, cxx11, crashed, histVars >>

\* a request for "/" arrives while the master is in some state
DirInit ==
    /\ ServerInit
    /\ cxx11 = FALSE
    /\ bus \in BusStates
    /\ getTopicsOk \in BOOLEAN
    /\ dirPc = "get_topics"
    /\ topics = << >>
    /\ image_topics = << >>
    /\ camera_info_topics = << >>
    /\ dirReply = "none"
    /\ out = << >>

\* ros::master::getTopics(topics): fills the vector and returns true, or
\* returns false with the vector as it was; the result is not looked at
DirGetTopics ==
    /\ dirPc = "get_topics"
    /\ topics' = IF getTopicsOk THEN bus ELSE topics
    /\ dirPc' = "classify"
    /\ UNCHANGED << bus, getTopicsOk, image_topics, camera_info_topics, dirReply, out >>
    /\ UNCHANGED serverVars

\* the loop over `topics` that fills image_topics and camera_info_topics
DirClassify ==
    /\ dirPc = "classify"
    /\ image_topics' = NamesOfType(topics, image_message_type)
    /\ camera_info_topics' = NamesOfType(topics, camera_info_message_type)
    /\ dirPc' = "header"
    /\ UNCHANGED << bus, getTopicsOk, topics, dirReply, out >>
    /\ UNCHANGED serverVars

\* the 200 header and the head of the page (lines 185-196)
DirHeader ==
    /\ dirPc = "header"
    /\ dirReply' = "200"
    /\ out' = << Written("page_open", << >>, << >>) >>
    /\ dirPc' = "foreach"
    /\ UNCHANGED << bus, getTopicsOk, topics, image_topics, camera_info_topics >>
    /\ UNCHANGED serverVars

\* one round of BOOST_FOREACH
DirForEach ==
    /\ dirPc = "foreach"
    /\ camera_info_topics # << >>
    /\ LET r == ForEachBody(Head(camera_info_topics), image_topics) IN
         /\ out' = out \o r.written
         /\ image_topics' = r.rest
    /\ camera_info_topics' = Tail(camera_info_topics)
    /\ UNCHANGED << bus, getTopicsOk, dirPc, topics, dirReply >>
    /\ UNCHANGED serverVars

\* the tail of the page (line 225) and the return
DirFooter ==
    /\ dirPc = "foreach"
    /\ camera_info_topics = << >>
    /\ out' = Append(out, Written("page_close", << >>, << >>))
    /\ dirPc' = "done"
    /\ UNCHANGED << bus, getTopicsOk, topics, image_topics, camera_info_topics,
                    dirReply >>
    /\ UNCHANGED serverVars

DirNext ==
    \/ DirGetTopics
    \/ DirClassify
    \/ DirHeader
    \/ DirForEach
    \/ DirFooter

\* handle_list_streams on its own, for every state of the master
DirSpec == DirInit /\ [][DirNext]_vars

(* ------------------------------ fairness ------------------------------- *)

\* Every thread that can take a step of its handler eventually takes it; a
\* blocked scoped_lock is granted the mutex if it is free again and again; the
\* timer keeps firing, and a tick finds the mutex free if it is free again and
\* again. Requests need not arrive and streamers need not die.
HandlerStep(t) ==
    \/ StreamCreate(t)
    \/ StreamerStart(t)
    \/ InsertPushBack(t)
    \/ InsertUnlock(t)
    \/ ViewerBody(t)
    \/ HandlerReturn(t)

SweepStep ==
    \/ SweepTryLock
    \/ SweepSkipReturn
    \/ SweepScan
    \/ SweepScanDone
    \/ SweepLog
    \/ SweepErase
    \/ SweepUnlock

Fairness ==
    /\ \A t \in Threads : WF_vars(HandlerStep(t)) /\ SF_vars(InsertLock(t))
    /\ WF_vars(SweepStep)
    /\ SF_vars(SweepTryLock /\ sweepPc' = "scan")

FairSpec == Spec /\ Fairness

(* ------------------------------- claims -------------------------------- *)

\* C1: a streamer leaves the registry only in a step of a sweep that holds the
\* mutex and for which isInactive() returned true when that sweep examined it;
\* no interleaving of inserts and sweeps loses a streamer seen active.
C1_RemovedOnlyIfSeenInactive ==
    [][\A s \in Ids :
         (s \in Registered /\ s \notin Registered')
            => /\ sweepPc \in {"scan", "log"}
               /\ TimerThread \in subscriber_mutex_
               /\ s \in seenInactive']_vars

\* C1 witness: a finished sweep removed a streamer and kept another
C1_Witness ==
    /\ sweepPc = "unlock"
    /\ Len(image_subscribers_) = 1
    /\ Len(preVec) = 2
    /\ seenInactive # {}

\* a request for /stream or /stream_viewer whose codec is not registered
UnknownCodecRequest(r) ==
    /\ r.path \in {"/stream", "/stream_viewer"}
    /\ r.type \notin stream_types_

\* C2: every step a thread takes for a /stream or /stream_viewer request naming
\* an unregistered codec leaves the registry, the mutex and all streamers as
\* they are and creates none; the handler's one step issues the stock 404 reply
\* and returns.
C2_UnknownCodecIs404 ==
    [][\A t \in Threads :
         ((UnknownCodecRequest(req[t]) \/ UnknownCodecRequest(req'[t]))
              /\ pc'[t] # pc[t])
            => /\ image_subscribers_' = image_subscribers_
               /\ subscriber_mutex_' = subscriber_mutex_
               /\ cur'[t] = NullPtr
               /\ started' = started
               /\ AliveIn(image_subscribers_', cur') = Alive
               /\ UnknownCodecRequest(req'[t])
                     => (reply'[t] = "404" /\ pc'[t] = "return")
               /\ UnknownCodecRequest(req[t])
                     => (reply[t] = "404" /\ pc'[t] = "idle")]_vars

\* C2 witness: both handlers have answered 404 to an unregistered codec
C2_Witness ==
    /\ \E t \in Threads : /\ pc[t] = "return"
                          /\ req[t] = [path |-> "/stream", type |-> "bogus"]
                          /\ reply[t] = "404"
    /\ \E t \in Threads : /\ pc[t] = "return"
                          /\ req[t] = [path |-> "/stream_viewer", type |-> "bogus"]
                          /\ reply[t] = "404"

\* C3: no error raised by a handler, of whatever kind, escapes
\* ros_connection_logger into the server's request thread.
C3_NoErrorEscapes == \A t \in Threads : pc[t] # "dead"

\* C4: after a handler fault the faulting thread does not hold the registry
\* mutex and goes on to serve later requests.
C4_FaultLeavesServerUsable ==
    \A t \in Threads :
       pc[t] \in {"caught", "dead"}
          => (t \notin subscriber_mutex_ /\ ENABLED HandlerReturn(t))

\* C5: a timer tick that finds the mutex held skips the body: its step and its
\* return change neither the registry, the mutex, the log nor any streamer, the
\* process lives on, and the return never has to wait for the mutex.
C5_ContendedSweepIsNoOp ==
    [][/\ (sweepPc = "idle" /\ sweepPc' # "idle" /\ subscriber_mutex_ # {})
            => /\ sweepPc' = "skipped"
               /\ UNCHANGED << image_subscribers_, subscriber_mutex_, removedLog,
                               sessionVars, crashed, handlerVars >>
       /\ (sweepPc = "skipped")
            => /\ ENABLED SweepSkipReturn
               /\ sweepPc' # sweepPc
                    => /\ sweepPc' = "idle"
                       /\ UNCHANGED << image_subscribers_, subscriber_mutex_,
                                       removedLog, sessionVars, crashed,
                                       handlerVars >>]_vars

\* C5 witness: the tick was skipped while a handler holds the mutex and an
\* inactive streamer sits in the registry
C5_Witness ==
    /\ sweepPc = "skipped"
    /\ \E t \in Threads : t \in subscriber_mutex_
    /\ Registered \cap inactive # {}

\* C6: under fair scheduling every handler call whose streamer was created
\* and started (the call waits for the mutex) eventually holds the mutex with
\* its streamer appended to the registry, unless push_back itself fails for
\* lack of memory.
C6_InsertEventuallyAppends ==
    \A t \in Threads :
       (pc[t] = "lock")
          ~> \/ (pc[t] = "unlock" /\ cur[t] \in Registered
                                  /\ t \in subscriber_mutex_)
             \/ pc[t] = "caught"

C8_InactiveEventuallyRemoved ==
    \A s \in Ids :
       (s \in Registered /\ s \in inactive) ~> (s \notin Registered)

\* the elements of vec outside `dead`, in order
Retained(vec, dead) == SelectSeq(vec, LAMBDA s : s \notin dead)

C10_SweepIdempotent ==
    sweepPc = "unlock"
       => /\ (quiet /\ ~disturbed)
               => (image_subscribers_ = preVec /\ removedLog = << >>)
          /\ image_subscribers_ = Retained(preVec, seenInactive)

\* C10 witness: the second of two such sweeps has finished over a registry
\* that still holds a streamer
C10_Witness ==
    /\ sweepPc = "unlock"
    /\ quiet
    /\ ~disturbed
    /\ image_subscribers_ # << >>

\* no streamer object sits in two slots of vec
NoDuplicate(vec) ==
    \A i, j \in 1..Len(vec) : (i # j /\ vec[i] # NullPtr) => vec[i] # vec[j]

\* C11 (as claimed): in every reachable state the registry holds no streamer
\* object more than once.
C11_NoDuplicateEver == NoDuplicate(image_subscribers_)

\* C11 (amended): whenever no sweep is between its remove_if and its erase (the
\* mutex is free, or a handler holds it, or the sweep has erased) the registry
\* holds no streamer twice and no empty pointer, and the streamer a handler is
\* about to append is not in it yet.
C11_NoDuplicateOutsideSweep ==
    /\ sweepPc \notin {"scan", "log"}
          => /\ NoDuplicate(image_subscribers_)
             /\ NullPtr \notin Range(image_subscribers_)
    /\ \A t \in Threads : pc[t] \in {"lock", "push"} => cur[t] \notin Registered

\* C11 witness: a sweep of a copy-assigning build has moved the second streamer
\* over the first, inactive one and erased the tail
C11_Witness ==
    /\ sweepPc = "unlock"
    /\ ~cxx11
    /\ Len(preVec) = 2
    /\ image_subscribers_ = << preVec[2] >>

\* the image and the camera-info topic names the master reported, in its order
ReportedImages == NamesOfType(topics, image_message_type)
ReportedInfos == NamesOfType(topics, camera_info_message_type)

\* name is "<base>camera_info" with base ending in "/"
IsBaseOf(base, name) == name = base \o << "camera_info" >> /\ base # << >>
                           /\ base[Len(base)] = "/"

\* p is a prefix of the string s
IsPrefixOf(p, s) == \E rest \in { SubSeq(s, k, Len(s)) : k \in 1..(Len(s) + 1) } :
                       s = p \o rest

\* the positions in ReportedInfos of the metadata topics whose base the image
\* topic n starts with
MatchingInfos(n) ==
    { k \in 1..Len(ReportedInfos) :
        \E b \in { SubSeq(ReportedInfos[k], 1, m) : m \in 0..Len(ReportedInfos[k]) } :
           IsBaseOf(b, ReportedInfos[k]) /\ IsPrefixOf(b, n) }

\* the base of the first of them in discovery order
FirstBase(n) ==
    LET k == CHOOSE k \in MatchingInfos(n) : \A m \in MatchingInfos(n) : k <= m
    IN SubSeq(ReportedInfos[k], 1, Len(ReportedInfos[k]) - 1)

\* the positions in `out` of the list items written for image topic n
ItemsOf(n) == { i \in 1..Len(out) : out[i].kind = "item" /\ out[i].topic = n }

\* the base of the group the entry at position i of `out` lies in
GroupAt(i) ==
    LET j == CHOOSE j \in 1..i : /\ out[j].kind = "open"
                                 /\ \A m \in (j + 1)..i : out[m].kind # "open"
    IN out[j].topic

\* C12: in the finished page every image topic that starts with the base of
\* some metadata topic ending in "/camera_info" is an item exactly once, in the
\* group of the first such metadata topic in discovery order, labelled by the
\* rest of its name after that base; an image topic starting with no such base
\* is no item at all; and nothing but reported image topics are items.
C12_FirstMatchWins ==
    dirPc = "done" =>
       /\ \A k \in 1..Len(ReportedImages) :
            LET n == ReportedImages[k] IN
              IF MatchingInfos(n) = {} THEN ItemsOf(n) = {}
              ELSE /\ Cardinality(ItemsOf(n)) = 1
                   /\ \A i \in ItemsOf(n) :
                        /\ GroupAt(i) = FirstBase(n)
                        /\ FirstBase(n) \o out[i].label = n
       /\ \A i \in 1..Len(out) :
            out[i].kind = "item" => out[i].topic \in Range(ReportedImages)

\* C12 witness: "/cam2/image_raw" and "/cam2/image_raw/compressed" appear under
\* "/cam2/" while "/other/image_raw" is reported and omitted
C12_Witness ==
    /\ dirPc = "done"
    /\ << "/", "other", "/", "image_raw" >> \in Range(ReportedImages)
    /\ ItemsOf(<< "/", "other", "/", "image_raw" >>) = {}
    /\ \E i, j \in 1..Len(out) :
          /\ out[i] = Written("item", << "/", "cam2", "/", "image_raw" >>,
                              << "image_raw" >>)
          /\ out[j] = Written("item",
                              << "/", "cam2", "/", "image_raw", "/", "compressed" >>,
                              << "image_raw", "/", "compressed" >>)
          /\ GroupAt(i) = << "/", "cam2", "/" >>
          /\ GroupAt(j) = << "/", "cam2", "/" >>

\* a camera-info topic whose name does not end with "/camera_info"
SkippedMetadata(tp) ==
    /\ tp.datatype = camera_info_message_type
    /\ ~ \E b \in { SubSeq(tp.name, 1, m) : m \in 0..Len(tp.name) } :
            IsBaseOf(b, tp.name)

\* C13: the finished page is the page the same topic list gives once the
\* metadata topics not ending in "/camera_info" are taken out of it.
C13_SkippedMetadataLeavesNoTrace ==
    dirPc = "done"
       => out = Page(SelectSeq(topics, LAMBDA tp : ~SkippedMetadata(tp)))

\* C14: a thread serving a /snapshot request, whatever its "type" parameter,
\* has issued no 404 and holds a streamer of the snapshot codec; the request
\* begins by creating that fresh streamer, then start() returns, then the mutex
\* is taken, then exactly that started streamer is appended.
C14_SnapshotAlwaysRegisters ==
    [][\A t \in Threads :
         req'[t].path = "/snapshot"
            => /\ reply'[t] = "none"
               /\ kind'[t] = SnapshotKind
               /\ req[t].path # "/snapshot"
                    => /\ pc'[t] = "start"
                       /\ cur'[t] \in Ids \ Alive
               /\ (pc[t] = "start" /\ pc'[t] # "start")
                    => /\ pc'[t] = "lock"
                       /\ cur'[t] = cur[t]
                       /\ cur[t] \in started'
               /\ (pc[t] = "lock" /\ pc'[t] # "lock")
                    => /\ pc'[t] = "push"
                       /\ t \in subscriber_mutex_'
               /\ (pc[t] = "push" /\ pc'[t] # "push")
                    => /\ pc'[t] = "unlock"
                       /\ cur[t] \in started
                       /\ image_subscribers_' = Append(image_subscribers_, cur[t])
               /\ (pc[t] = "unlock" /\ pc'[t] # "unlock") => pc'[t] = "return"]_vars

\* C14 witness: a /snapshot request naming an unregistered codec has appended
\* its started snapshot streamer
C14_Witness ==
    \E t \in Threads :
       /\ req[t] = [path |-> "/snapshot", type |-> "bogus"]
       /\ pc[t] = "unlock"
       /\ kind[t] = SnapshotKind
       /\ cur[t] \in started
       /\ image_subscribers_[Len(image_subscribers_)] = cur[t]

\* C15: when a sweep that took the mutex has erased, its "Removed Stream" lines
\* name exactly the streamers it took out of the registry, one line each, and
\* none that it kept.
C15_LogNamesExactlyTheRemoved ==
    sweepPc = "unlock"
       => /\ Range(removedLog) = Range(preVec) \ Registered
          /\ Len(removedLog) = Cardinality(Range(preVec) \ Registered)
          /\ Range(removedLog) \cap Registered = {}

\* C16 (as claimed): in no reachable state is an inserting handler waiting for
\* the mutex while the sweep holds it.
C16_NoInserterWaitsOnSweep ==
    ~ (TimerThread \in subscriber_mutex_ /\ \E t \in Threads : pc[t] = "lock")

\* C16 (amended): it is the sweep that never waits: while a handler holds the
\* mutex the timer callback is either not running or on its way out through the
\* skipped body, with its next step enabled; the sweep owns the mutex only
\* inside the body it entered by a successful try-lock.
C16_SweepNeverWaits ==
    /\ \A t \in Threads :
          t \in subscriber_mutex_
             => (sweepPc \in {"idle", "skipped"} /\ ENABLED SweepStep)
    /\ TimerThread \in subscriber_mutex_ <=> sweepPc \in {"scan", "log", "unlock"}

\* C16 witness: the sweep is inside remove_if, holding the mutex, and a handler
\* that created and started its streamer waits for that mutex
C16_Witness ==
    /\ sweepPc = "scan"
    /\ TimerThread \in subscriber_mutex_
    /\ ~crashed
    /\ \E t \in Threads : pc[t] = "lock" /\ cur[t] \in started

\* the threads inside a section that changes image_subscribers_
Mutators ==
    { t \in Threads : pc[t] \in {"push", "unlock"} }
       \cup (IF sweepPc \in {"scan", "log", "unlock"} THEN {TimerThread} ELSE {})

\* C17: at most one thread owns subscriber_mutex_, at most one thread is inside
\* an append or a remove/erase section, and every step that changes
\* image_subscribers_ is taken by the owner of the mutex: a handler at its
\* push_back or the sweep at its remove_if or erase.
C17_MutationUnderLock ==
    [][/\ Cardinality(subscriber_mutex_') <= 1
       /\ Cardinality(Mutators') <= 1
       /\ Mutators' \subseteq subscriber_mutex_'
       /\ image_subscribers_' # image_subscribers_
            => \E th \in subscriber_mutex_ :
                  /\ th \in subscriber_mutex_'
                  /\ \/ th = TimerThread /\ sweepPc \in {"scan", "log"}
                     \/ th \in Threads /\ pc[th] = "push" /\ pc'[th] = "unlock"]_vars

\* C17 witness: a handler has appended under the mutex while the other handler
\* waits for it and the timer's tick was turned away
C17_Witness ==
    \E t, u \in Threads :
       /\ t # u
       /\ pc[t] = "unlock"
       /\ subscriber_mutex_ = {t}
       /\ pc[u] = "lock"
       /\ sweepPc = "skipped"

\* C18: when ros::master::getTopics fails, the directory handler writes no 200
\* status line and no page.
C18_EnumerationFailureSurfaces ==
    ~getTopicsOk => (dirReply # "200" /\ dirPc # "done")

\* C19: every streamer in the registry has had start() return; the streamer a
\* handler waits to append, appends or has appended is a started one; and a
\* step in which creation or start() raises leaves the registry as it is and
\* destroys the handler's streamer, which is therefore never inserted.
C19_InsertedOnlyAfterStart ==
    [][/\ Registered' \subseteq started'
       /\ \A t \in Threads :
            /\ pc'[t] \in {"lock", "push", "unlock"} => cur'[t] \in started'
            /\ (pc[t] = "push" /\ pc'[t] = "unlock")
                 => image_subscribers_' = Append(image_subscribers_, cur[t])
            /\ (pc[t] \in {"idle", "create", "start"} /\ pc'[t] \in {"caught", "dead"})
                 => /\ image_subscribers_' = image_subscribers_
                    /\ cur'[t] = NullPtr
                    /\ cur[t] # NullPtr => cur[t] \notin AliveIn(image_subscribers_', cur')]_vars

\* C19 witness: one handler's request ended in an exception it could only have
\* met before the mutex (the exception was not a std::exception), the other
\* handler holds a created streamer whose start() has not returned, and the
\* registry holds a started streamer and not that one
C19_Witness ==
    \E t, u \in Threads :
       /\ pc[t] = "dead"
       /\ pc[u] = "start"
       /\ cur[u] \notin started
       /\ cur[u] \notin Registered
       /\ Registered # {}
       /\ Registered \subseteq started

\* the requests that only read
ReadOnlyRequest(r) == r.path \in {"/", "/stream_viewer"}

\* C20: no step a thread takes for a "/" or "/stream_viewer" request, known
\* codec or not, creates or starts a streamer, touches the mutex or changes the
\* registry; a streamer enters the registry only by the push_back of a thread
\* serving /stream or /snapshot, and leaves it only in a step of the sweep.
C20_OnlyInsertsAddOnlySweepRemoves ==
    [][/\ \A t \in Threads :
            ((ReadOnlyRequest(req[t]) \/ ReadOnlyRequest(req'[t])) /\ pc'[t] # pc[t])
               => /\ image_subscribers_' = image_subscribers_
                  /\ subscriber_mutex_' = subscriber_mutex_
                  /\ t \notin subscriber_mutex_
                  /\ cur[t] = NullPtr /\ cur'[t] = NullPtr
                  /\ kind'[t] = "none"
                  /\ started' = started
                  /\ AliveIn(image_subscribers_', cur') = Alive
       /\ \A s \in Registered' \ Registered :
            \E t \in Threads : /\ req[t].path \in {"/stream", "/snapshot"}
                               /\ pc[t] = "push"
                               /\ cur[t] = s
       /\ Registered \ Registered' # {}
            => /\ sweepPc \in {"scan", "log"}
               /\ pc' = pc]_vars

\* C20 witness: the directory and a viewer page of a registered codec have been
\* served with 200 while the registry holds a streamer and the mutex is free
C20_Witness ==
    /\ \E t, u \in Threads :
          /\ req[t].path = "/" /\ pc[t] = "return" /\ reply[t] = "200"
          /\ req[u] = [path |-> "/stream_viewer", type |-> "mjpeg"]
          /\ pc[u] = "return" /\ reply[u] = "200"
    /\ Registered # {}
    /\ subscriber_mutex_ = {}

=============================================================================
